---- MODULE Spec2Model ----
(***************************************************************************)
(* Model of src/player.rs of MCHPRS: the Player session, its persistence   *)
(* (load_player / create_player / save), the keep-alive handling of        *)
(* update, and the worldedit selection helpers.                            *)
(*                                                                         *)
(* Representation.                                                         *)
(*   - Instants and durations are integers counting ticks of 1/TicksPerSec *)
(*     of a second; Duration::as_secs is AsSecs.                           *)
(*   - f64 coordinates are integers counting 1/PosScale of a block, so     *)
(*     that fractional positions exist; "x as i32" is AsI32.               *)
(*   - The f32 angles yaw and pitch are integers counting 1/AngleScale of  *)
(*     a degree; the f32 speeds are opaque integers.                       *)
(*   - Option<T> is a sequence of length 0 (None) or 1 (Some).             *)
(*   - The client (NetworkClient) is the sequence out of the packets the   *)
(*     last operation sent, in send order.                                 *)
(*   - A JSON object is a record.                                          *)
(*   - hist records, of the packets sent since the connection was made:    *)
(*     when update last sent a keep-alive, for which last-received instant *)
(*     update last sent a time-out disconnect, and the data of the last    *)
(*     worldedit:cui message sent for each selection corner.               *)
(***************************************************************************)
EXTENDS Integers, Sequences, FiniteSets, TLC

VARIABLES
    player,     \* the Player struct (src/player.rs:71-114)
    now,        \* the monotonic clock (Instant::now()), in ticks
    file,       \* ./world/players/{uuid}: None, or Some(sequence of encoded fields)
    out,        \* packets sent through player.client by the last operation
    ret,        \* what the last operation returned: Some(value), or None
    op,         \* the last operation and what it observed when called
    panicked,   \* TRUE when the last operation unwound (unwrap / index panic)
    hist        \* what the connection has carried so far (history variable)

vars == <<player, now, file, out, ret, op, panicked, hist>>

----------------------------------------------------------------------------
(* Bounds of the model *)

TicksPerSec == 2      \* clock resolution: ticks per second
MaxSecs == 33         \* the clock runs from 0 to MaxSecs seconds
PosScale == 2         \* coordinate resolution: steps per block
MaxCoord == 17        \* x ranges over -MaxCoord..MaxCoord blocks
MaxCoordZ == 1        \* z ranges over -MaxCoordZ..MaxCoordZ blocks
MaxChunk == 1         \* recorded cells range over -MaxChunk-1..MaxChunk
AngleScale == 2       \* angle resolution: steps per degree
MaxYaw == 400         \* yaw ranges over -MaxYaw..MaxYaw degrees
PitchMargin == 1      \* pitch ranges over 0 and 70 +- PitchMargin degrees, both signs
MaxFill == 3          \* digests are filled with MaxFill + 1 byte patterns
MaxPartial == 1       \* a failed write_all leaves at most MaxPartial fields
MaxCorrupt == 1       \* damages done to a saved file before it is loaded
MaxBlock == 1         \* corner coordinates range over -MaxBlock..MaxBlock
MaxUndo == 4          \* entries the undo history holds
NumSnapshots == 3     \* distinct snapshots pushed

(* Program constants *)

KeepAliveTimeoutSecs == 30
KeepAliveIntervalSecs == 10
ChunkShift == 4
InventorySize == 46
I32Max == 2147483647

----------------------------------------------------------------------------
(* Option<T> *)

None == <<>>
Some(v) == <<v>>
IsSome(o) == Len(o) = 1
Unwrap(o) == o[1]

(* Gamemode (src/player.rs:27-31) *)
Gamemode == {"Creative", "Spectator"}

----------------------------------------------------------------------------
(* Numeric conversions *)

\* Duration::as_secs: the whole seconds of a duration, the fraction dropped.
AsSecs(d) == d \div TicksPerSec

\* "f as i32" on an f64: truncation toward zero, saturating at the i32 range.
AsI32(f) ==
    LET t == IF f >= 0 THEN f \div PosScale ELSE -((-f) \div PosScale)
    IN  IF t > I32Max THEN I32Max
        ELSE IF t < -I32Max - 1 THEN -I32Max - 1
        ELSE t

\* ">> 4" on an i32: arithmetic shift, i.e. floor division by 16.
Shr(n, k) == n \div (2 ^ k)

\* The chunk coordinate update computes from a coordinate.
ChunkOf(f) == Shr(AsI32(f), ChunkShift)

----------------------------------------------------------------------------
(* Packets (crate::network::packets::clientbound), as update and kick build them *)

CDisconnect(reason) == [type |-> "CDisconnect", reason |-> reason]
CKeepAlive(id) == [type |-> "CKeepAlive", id |-> id]

\* json!({ "text": "Timed out." })
TimedOutReason == [text |-> "Timed out."]

\* SystemTime::now().duration_since(UNIX_EPOCH).as_secs(): the wall clock is
\* taken to read the epoch at tick 0.
UnixSecs(t) == AsSecs(t)

----------------------------------------------------------------------------
(* create_player: the default Player *)

EmptyInventory == [s \in 0..(InventorySize - 1) |-> None]

create_player(t) ==
    [ inventory |-> EmptyInventory,
      selected_slot |-> 0,
      x |-> 128 * PosScale,
      y |-> 128 * PosScale,
      z |-> 128 * PosScale,
      last_chunk_x |-> 8,
      last_chunk_z |-> 8,
      yaw |-> 0,
      pitch |-> 0,
      flying |-> FALSE,
      sprinting |-> FALSE,
      crouching |-> FALSE,
      gamemode |-> "Creative",
      fly_speed |-> 1,
      walk_speed |-> 1,
      on_ground |-> TRUE,
      last_keep_alive_received |-> t,
      last_keep_alive_sent |-> t,
      first_position |-> None,
      second_position |-> None,
      worldedit_clipboard |-> None,
      worldedit_undo |-> <<>>,
      command_queue |-> <<>> ]

----------------------------------------------------------------------------
(* kick, send_keep_alive, update *)

\* The mutation of kick: the packet is sent twice.
kick_twice(reason) == <<CDisconnect(reason), CDisconnect(reason)>>

\* kick(reason): the packets sent.
kick(reason) == <<CDisconnect(reason)>>

\* Mutant of TimedOut: ">=" for ">".
TimedOutInclusive(p, t) ==
    AsSecs(t - p.last_keep_alive_received) >= KeepAliveTimeoutSecs

\* The mutation of TimedOut: the time is measured from the last keep-alive
\* sent.
TimedOutSinceSent(p, t) ==
    AsSecs(t - p.last_keep_alive_sent) > KeepAliveTimeoutSecs

\* The test update makes on last_keep_alive_received.
TimedOut(p, t) == AsSecs(t - p.last_keep_alive_received) > KeepAliveTimeoutSecs

\* The mutation of KeepAliveDue: ">=" for ">".
KeepAliveDueInclusive(p, t) ==
    AsSecs(t - p.last_keep_alive_sent) >= KeepAliveIntervalSecs

\* The test update makes on last_keep_alive_sent.
KeepAliveDue(p, t) == AsSecs(t - p.last_keep_alive_sent) > KeepAliveIntervalSecs

\* send_keep_alive: the packet sent, and the player afterwards.
KeepAlivePackets(t) == <<CKeepAlive(UnixSecs(t))>>
\* Mutant of send_keep_alive: last_keep_alive_sent is not recorded.
send_keep_alive_no_record(p, t) == p

send_keep_alive(p, t) == [p EXCEPT !.last_keep_alive_sent = t]

\* The history of a connection that has carried nothing yet.
NoHistory ==
    [ heartbeat_at |-> None,
      timed_out_for |-> None,
      cui |-> [First |-> None, Second |-> None] ]

\* The value update returns.
ChunkChanged(p) ==
    \/ ChunkOf(p.x) # p.last_chunk_x
    \/ ChunkOf(p.z) # p.last_chunk_z

Update ==
    /\ ~panicked
    /\ op' = [ name |-> "update",
               since_received |-> now - player.last_keep_alive_received,
               since_sent |-> now - player.last_keep_alive_sent,
               before |-> player,
               hist |-> hist ]
    /\ out' = (IF TimedOut(player, now) THEN kick(TimedOutReason) ELSE <<>>)
              \o (IF KeepAliveDue(player, now) THEN KeepAlivePackets(now) ELSE <<>>)
    /\ player' = IF KeepAliveDue(player, now) THEN send_keep_alive(player, now)
                 ELSE player
    /\ ret' = Some(ChunkChanged(player))
    /\ hist' = [hist EXCEPT
                  !.heartbeat_at = IF KeepAliveDue(player, now)
                                   THEN Some(now) ELSE @,
                  !.timed_out_for = IF TimedOut(player, now)
                                    THEN Some(player.last_keep_alive_received)
                                    ELSE @]
    /\ UNCHANGED <<now, file, panicked>>

\* kick called by a command or by the plot, with any reason.
KickReasons == {TimedOutReason, [text |-> "Kicked by an operator."]}
Kick ==
    /\ ~panicked
    /\ \E reason \in KickReasons :
          /\ out' = kick(reason)
          /\ op' = [name |-> "kick", reason |-> reason, before |-> player]
    /\ ret' = None
    /\ UNCHANGED <<player, now, file, panicked, hist>>

----------------------------------------------------------------------------
(* The environment of the session *)

NoOp(name) == [name |-> name]

\* Time passes.
Tick ==
    /\ now < MaxSecs * TicksPerSec
    /\ now' = now + 1
    /\ op' = NoOp("tick")
    /\ out' = <<>>
    /\ ret' = None
    /\ UNCHANGED <<player, file, panicked, hist>>

\* The packet handler records a keep-alive reply (the field is pub).
ReceiveKeepAlive ==
    /\ ~panicked
    /\ player.last_keep_alive_received # now
    /\ player' = [player EXCEPT !.last_keep_alive_received = now]
    /\ op' = NoOp("receive_keep_alive")
    /\ out' = <<>>
    /\ ret' = None
    /\ UNCHANGED <<now, file, panicked, hist>>

Coords == (-MaxCoord * PosScale)..(MaxCoord * PosScale)
CoordsZ == (-MaxCoordZ * PosScale)..(MaxCoordZ * PosScale)
Chunks == (-MaxChunk - 1)..MaxChunk

\* The movement handler writes the position (the fields are pub).
Move ==
    /\ ~panicked
    /\ \E nx \in Coords, nz \in CoordsZ :
          player' = [player EXCEPT !.x = nx, !.z = nz]
    /\ op' = NoOp("move")
    /\ out' = <<>>
    /\ ret' = None
    /\ UNCHANGED <<now, file, panicked, hist>>

\* The caller of update records a cell (the fields are pub).
RecordChunk ==
    /\ ~panicked
    /\ \E cx \in Chunks, cz \in Chunks :
          player' = [player EXCEPT !.last_chunk_x = cx, !.last_chunk_z = cz]
    /\ op' = NoOp("record_chunk")
    /\ out' = <<>>
    /\ ret' = None
    /\ UNCHANGED <<now, file, panicked, hist>>

----------------------------------------------------------------------------
(* Integer casts of save and load_player ("as"): wrapping, width kept *)

\* u8 as i8, and i8 as u8
U8AsI8(n) == IF n >= 128 THEN n - 256 ELSE n
I8AsU8(n) == n % 256
\* u16 as i16, and i16 as u16
U16AsI16(n) == IF n >= 32768 THEN n - 65536 ELSE n
I16AsU16(n) == n % 65536
\* u32 as i32, and i32 as u32: n - 2^32 and n + 2^32 where they wrap. The
\* model holds 32-bit values up to I32Max, where neither wraps.
U32AsI32(n) == IF n > I32Max THEN (n - I32Max - 1) - I32Max - 1 ELSE n
I32AsU32(n) == IF n < 0 THEN (n + I32Max + 1) + I32Max + 1 ELSE n
\* usize as i8 (the slot index on save)
UsizeAsI8(n) == U8AsI8(n % 256)
\* inventory[slot as usize] with slot an i8: a negative slot sign-extends to
\* an index of at least 2^63, so the index is in bounds only for 0..45.
SlotInBounds(slot) == slot >= 0 /\ slot < InventorySize

----------------------------------------------------------------------------
(* Items and their payload *)

\* Item::from_id and Item::get_id (crate::items): an item is named by its id.
Item_from_id(id) == [id |-> id]
Item_get_id(item) == item.id

\* nbt::Blob::to_writer: the bytes of a payload. A payload is a number b,
\* written as a compound tag holding b and closed by an end tag.
NbtCompound == 10
NbtEnd == 0
BlobToBytes(b) == <<NbtCompound, b, NbtEnd>>

\* nbt::Blob::from_reader: a payload read from the head of bytes, or None
\* (the Err the caller unwraps) when they are not a payload.
BlobFromBytes(bytes) ==
    IF /\ Len(bytes) >= 3
       /\ bytes[1] = NbtCompound
       /\ bytes[3] = NbtEnd
    THEN Some(bytes[2])
    ELSE None

----------------------------------------------------------------------------
(* save: Player -> PlayerData -> encoded fields *)

\* The InventoryEntry save pushes for slot s holding item.
EntryOf(s, item) ==
    [ id |-> Item_get_id(item.item_type),
      slot |-> UsizeAsI8(s),
      count |-> U8AsI8(item.count),
      damage |-> U16AsI16(item.damage),
      nbt |-> IF IsSome(item.nbt) THEN Some(BlobToBytes(Unwrap(item.nbt)))
              ELSE None ]

\* The loop of save over the inventory: the entries pushed for the slots
\* lo..hi, in slot order (the range is halved to keep the evaluation shallow).
RECURSIVE EntriesOf(_, _, _)
EntriesOf(inv, lo, hi) ==
    IF lo > hi THEN <<>>
    ELSE IF lo = hi
         THEN (IF IsSome(inv[lo]) THEN <<EntryOf(lo, Unwrap(inv[lo]))>> ELSE <<>>)
    ELSE LET mid == (lo + hi) \div 2
         IN  EntriesOf(inv, lo, mid) \o EntriesOf(inv, mid + 1, hi)

\* The PlayerData save builds.
PlayerDataOf(p) ==
    [ on_ground |-> p.on_ground,
      flying |-> p.flying,
      motion |-> <<0, 0, 0>>,
      position |-> <<p.x, p.y, p.z>>,
      rotation |-> <<p.pitch, p.yaw>>,
      inventory |-> EntriesOf(p.inventory, 0, InventorySize - 1),
      selected_item_slot |-> U32AsI32(p.selected_slot),
      fly_speed |-> p.fly_speed,
      walk_speed |-> p.walk_speed,
      gamemode |-> p.gamemode ]

\* bincode::serialize, one element per encoded field, in declaration order:
\* a bool is 0 or 1, a Vec is its length then its elements, an Option is a
\* tag 0 or 1 then its value, an enum is its variant index, an i8 or i16 is
\* its bytes read as an unsigned number.
EncBool(b) == <<IF b THEN 1 ELSE 0>>
EncVec(v) == <<Len(v)>> \o v
EncOptBytes(o) == IF IsSome(o) THEN <<1>> \o EncVec(Unwrap(o)) ELSE <<0>>
EncGamemode(g) == <<IF g = "Creative" THEN 0 ELSE 1>>
EncEntry(e) ==
    <<e.id, I8AsU8(e.slot), I8AsU8(e.count), I16AsU16(e.damage)>>
    \o EncOptBytes(e.nbt)

\* The entries lo..hi of es, encoded one after the other.
RECURSIVE EncEntries(_, _, _)
EncEntries(es, lo, hi) ==
    IF lo > hi THEN <<>>
    ELSE IF lo = hi THEN EncEntry(es[lo])
    ELSE LET mid == (lo + hi) \div 2
         IN  EncEntries(es, lo, mid) \o EncEntries(es, mid + 1, hi)

Serialize(pd) ==
    EncBool(pd.on_ground) \o EncBool(pd.flying)
    \o EncVec(pd.motion) \o EncVec(pd.position) \o EncVec(pd.rotation)
    \o <<Len(pd.inventory)>> \o EncEntries(pd.inventory, 1, Len(pd.inventory))
    \o <<pd.selected_item_slot, pd.fly_speed, pd.walk_speed>>
    \o EncGamemode(pd.gamemode)

----------------------------------------------------------------------------
(* bincode::deserialize: encoded fields -> PlayerData, or an error *)

\* A reader result: ok, the value read, and the index of the next field.
RdErr == [ok |-> FALSE]
RdOk(v, next) == [ok |-> TRUE, val |-> v, next |-> next]

RdAny(d, i) == IF i > Len(d) THEN RdErr ELSE RdOk(d[i], i + 1)
RdBool(d, i) ==
    IF i > Len(d) \/ d[i] \notin {0, 1} THEN RdErr ELSE RdOk(d[i] = 1, i + 1)
RdVec(d, i) ==
    IF i > Len(d) THEN RdErr
    ELSE IF d[i] < 0 \/ d[i] > Len(d) - i THEN RdErr
    ELSE RdOk(SubSeq(d, i + 1, i + d[i]), i + d[i] + 1)
RdOptBytes(d, i) ==
    IF i > Len(d) \/ d[i] \notin {0, 1} THEN RdErr
    ELSE IF d[i] = 0 THEN RdOk(None, i + 1)
    ELSE LET v == RdVec(d, i + 1)
         IN  IF v.ok THEN RdOk(Some(v.val), v.next) ELSE RdErr
RdGamemode(d, i) ==
    IF i > Len(d) \/ d[i] \notin {0, 1} THEN RdErr
    ELSE RdOk(IF d[i] = 0 THEN "Creative" ELSE "Spectator", i + 1)
RdEntry(d, i) ==
    IF i + 3 > Len(d) THEN RdErr
    ELSE LET n == RdOptBytes(d, i + 4)
         IN  IF ~n.ok THEN RdErr
             ELSE RdOk([ id |-> d[i],
                         slot |-> U8AsI8(d[i + 1] % 256),
                         count |-> U8AsI8(d[i + 2] % 256),
                         damage |-> U16AsI16(d[i + 3] % 65536),
                         nbt |-> n.val ], n.next)

\* n entries read one after the other from index i on (the count is halved
\* to keep the evaluation shallow).
RECURSIVE RdEntries(_, _, _)
RdEntries(d, i, n) ==
    IF n = 0 THEN RdOk(<<>>, i)
    ELSE IF n = 1
         THEN LET e == RdEntry(d, i)
              IN  IF e.ok THEN RdOk(<<e.val>>, e.next) ELSE RdErr
    ELSE LET first == RdEntries(d, i, n \div 2)
         IN  IF ~first.ok THEN RdErr
             ELSE LET rest == RdEntries(d, first.next, n - (n \div 2))
                  IN  IF ~rest.ok THEN RdErr
                      ELSE RdOk(first.val \o rest.val, rest.next)

RdInventory(d, i) ==
    IF i > Len(d) THEN RdErr
    ELSE IF d[i] < 0 \/ d[i] > Len(d) THEN RdErr
    ELSE RdEntries(d, i + 1, d[i])

\* Some(PlayerData), or None for Err. Fields after the record are ignored
\* (bincode::deserialize allows trailing bytes).
Deserialize(d) ==
    LET g == RdBool(d, 1) IN
    IF ~g.ok THEN None ELSE
    LET f == RdBool(d, g.next) IN
    IF ~f.ok THEN None ELSE
    LET m == RdVec(d, f.next) IN
    IF ~m.ok THEN None ELSE
    LET p == RdVec(d, m.next) IN
    IF ~p.ok THEN None ELSE
    LET r == RdVec(d, p.next) IN
    IF ~r.ok THEN None ELSE
    LET v == RdInventory(d, r.next) IN
    IF ~v.ok THEN None ELSE
    LET s == RdAny(d, v.next) IN
    IF ~s.ok THEN None ELSE
    LET fs == RdAny(d, s.next) IN
    IF ~fs.ok THEN None ELSE
    LET ws == RdAny(d, fs.next) IN
    IF ~ws.ok THEN None ELSE
    LET gm == RdGamemode(d, ws.next) IN
    IF ~gm.ok THEN None ELSE
    Some([ on_ground |-> g.val,
           flying |-> f.val,
           motion |-> m.val,
           position |-> p.val,
           rotation |-> r.val,
           inventory |-> v.val,
           selected_item_slot |-> s.val,
           fly_speed |-> fs.val,
           walk_speed |-> ws.val,
           gamemode |-> gm.val ])

----------------------------------------------------------------------------
(* load_player *)

\* Mutant of ItemStackOf: the count and the damage are not cast back.
ItemStackOfSigned(e) ==
    [ item_type |-> Item_from_id(e.id),
      count |-> e.count,
      damage |-> e.damage,
      nbt |-> IF IsSome(e.nbt) THEN BlobFromBytes(Unwrap(e.nbt)) ELSE None ]

\* The ItemStack load_player builds from an entry whose payload decoded.
ItemStackOf(e) ==
    [ item_type |-> Item_from_id(e.id),
      count |-> I8AsU8(e.count),
      damage |-> I16AsU16(e.damage),
      nbt |-> IF IsSome(e.nbt) THEN BlobFromBytes(Unwrap(e.nbt)) ELSE None ]

\* An entry on which the inventory loop panics: the payload's unwrap fails,
\* or the slot indexes outside the 46 slots.
EntryPanics(e) ==
    \/ IsSome(e.nbt) /\ ~IsSome(BlobFromBytes(Unwrap(e.nbt)))
    \/ ~SlotInBounds(e.slot)

\* The inventory loop of load_player over entries that do not panic: each
\* slot holds the stack of the last entry that names it.
LoadInventory(es) ==
    [ s \in 0..(InventorySize - 1) |->
        LET named == {i \in 1..Len(es) : es[i].slot = s}
        IN  IF named = {} THEN None
            ELSE Some(ItemStackOf(es[CHOOSE i \in named : \A j \in named : j <= i])) ]

\* load_player panics on this PlayerData: in the inventory loop, or indexing
\* position[0..2] or rotation[0..1].
LoadPanics(pd) ==
    \/ \E i \in 1..Len(pd.inventory) : EntryPanics(pd.inventory[i])
    \/ Len(pd.position) < 3
    \/ Len(pd.rotation) < 2

\* The Player load_player builds from a PlayerData it does not panic on.
PlayerOfData(pd, t) ==
    [ inventory |-> LoadInventory(pd.inventory),
      selected_slot |-> I32AsU32(pd.selected_item_slot),
      x |-> pd.position[1],
      y |-> pd.position[2],
      z |-> pd.position[3],
      pitch |-> pd.rotation[1],
      yaw |-> pd.rotation[2],
      last_chunk_x |-> 0,
      last_chunk_z |-> 0,
      flying |-> pd.flying,
      sprinting |-> FALSE,
      crouching |-> FALSE,
      gamemode |-> pd.gamemode,
      on_ground |-> pd.on_ground,
      walk_speed |-> pd.walk_speed,
      fly_speed |-> pd.fly_speed,
      last_keep_alive_received |-> t,
      last_keep_alive_sent |-> t,
      first_position |-> None,
      second_position |-> None,
      worldedit_clipboard |-> None,
      worldedit_undo |-> <<>>,
      command_queue |-> <<>> ]

\* load_player on the file f at time t: whether it panics, and the Player.
load_player(f, t) ==
    IF ~IsSome(f) THEN [panics |-> FALSE, player |-> create_player(t)]
    ELSE LET pd == Deserialize(Unwrap(f))
         IN  IF ~IsSome(pd) THEN [panics |-> FALSE, player |-> create_player(t)]
             ELSE IF LoadPanics(Unwrap(pd)) THEN [panics |-> TRUE]
             ELSE [panics |-> FALSE, player |-> PlayerOfData(Unwrap(pd), t)]

\* A new connection of the same identity: the session is load_player's.
LoadPlayer ==
    LET r == load_player(file, now)
    IN  /\ panicked' = r.panics
        /\ player' = IF r.panics THEN player ELSE r.player
        /\ op' = [ name |-> "load_player",
                   after_save |-> (op.name = "save" /\ ~panicked),
                   saved |-> IF op.name = "save" /\ ~panicked
                             THEN Some(player) ELSE None ]
        /\ out' = <<>>
        /\ ret' = None
        /\ hist' = IF r.panics THEN hist ELSE NoHistory
        /\ UNCHANGED <<now, file>>

----------------------------------------------------------------------------
(* save *)

\* write_all of data at offset 0 of a file opened without truncate: the
\* fields of old beyond the data stay.
WriteAt0(old, data) ==
    data \o (IF Len(old) > Len(data) THEN SubSeq(old, Len(data) + 1, Len(old))
             ELSE <<>>)

\* OpenOptions::new().write(true).create(true).open(..): the file's content
\* once opened.
OpenCreate(f) == IF IsSome(f) THEN Unwrap(f) ELSE <<>>

\* save, when open and write_all succeed.
SaveOk ==
    /\ ~panicked
    /\ file' = Some(WriteAt0(OpenCreate(file), Serialize(PlayerDataOf(player))))
    /\ op' = [name |-> "save", io_failed |-> FALSE, before |-> player]
    /\ ret' = Some("unit")
    /\ out' = <<>>
    /\ UNCHANGED <<player, now, panicked, hist>>

\* save, when open fails: the unwrap panics.
SaveOpenFails ==
    /\ ~panicked
    /\ panicked' = TRUE
    /\ op' = [name |-> "save", io_failed |-> TRUE, before |-> player]
    /\ ret' = None
    /\ out' = <<>>
    /\ UNCHANGED <<player, now, file, hist>>

\* save, when write_all fails after k fields were written: the unwrap panics.
SaveWriteFails ==
    /\ ~panicked
    /\ \E k \in 0..MaxPartial :
          LET data == Serialize(PlayerDataOf(player))
          IN  /\ k < Len(data)
              /\ file' = Some(WriteAt0(OpenCreate(file), SubSeq(data, 1, k)))
    /\ panicked' = TRUE
    /\ op' = [name |-> "save", io_failed |-> TRUE, before |-> player]
    /\ ret' = None
    /\ out' = <<>>
    /\ UNCHANGED <<player, now, hist>>

Save == SaveOk \/ SaveOpenFails \/ SaveWriteFails

----------------------------------------------------------------------------
(* The game around the session: handlers write the pub fields *)

ItemA == [item_type |-> Item_from_id(1), count |-> 64, damage |-> 0, nbt |-> None]
ItemB == [item_type |-> Item_from_id(300), count |-> 200, damage |-> 40000,
          nbt |-> Some(7)]

\* Inventories the inventory handlers leave: the first and the last slot
\* empty or occupied, and every slot occupied.
TestInventories ==
    { [EmptyInventory EXCEPT ![0] = a, ![InventorySize - 1] = b] :
        a \in {None, Some(ItemA)}, b \in {None, Some(ItemB)} }
    \cup { [s \in 0..(InventorySize - 1) |->
              IF s = InventorySize - 1 THEN Some(ItemB) ELSE Some(ItemA)] }

SetInventory ==
    /\ ~panicked
    /\ \E inv \in TestInventories :
          /\ inv # player.inventory
          /\ player' = [player EXCEPT !.inventory = inv]
    /\ op' = NoOp("set_inventory")
    /\ out' = <<>>
    /\ ret' = None
    /\ UNCHANGED <<now, file, panicked, hist>>

\* Values the handlers give the persisted scalar fields: those of
\* create_player, and others.
Profiles ==
    { [ x |-> 128 * PosScale, y |-> 128 * PosScale, z |-> 128 * PosScale,
        pitch |-> 0, yaw |-> 0, flying |-> FALSE, on_ground |-> TRUE,
        fly_speed |-> 1, walk_speed |-> 1, gamemode |-> "Creative",
        selected_slot |-> 0 ],
      [ x |-> -1, y |-> 64 * PosScale, z |-> 20 * PosScale + 1,
        pitch |-> -30, yaw |-> 200, flying |-> TRUE, on_ground |-> FALSE,
        fly_speed |-> 2, walk_speed |-> 3, gamemode |-> "Spectator",
        selected_slot |-> 8 ] }

WithProfile(p, f) ==
    [p EXCEPT
        !.x = f.x, !.y = f.y, !.z = f.z, !.pitch = f.pitch, !.yaw = f.yaw,
        !.flying = f.flying, !.on_ground = f.on_ground,
        !.fly_speed = f.fly_speed, !.walk_speed = f.walk_speed,
        !.gamemode = f.gamemode, !.selected_slot = f.selected_slot]

Play ==
    /\ ~panicked
    /\ \E f \in Profiles :
          /\ player' = WithProfile(player, f)
          /\ player' # player
    /\ op' = NoOp("play")
    /\ out' = <<>>
    /\ ret' = None
    /\ UNCHANGED <<now, file, panicked, hist>>

\* Sessions whose records an earlier run of the server left on disk.
TestSessions ==
    { [WithProfile(create_player(0), f) EXCEPT !.inventory = inv] :
        f \in Profiles, inv \in {v \in TestInventories : v[1] = None} }

\* The file is damaged outside the program: cut short ...
Truncate ==
    /\ IsSome(file)
    /\ op.name = "save" \/ (op.name = "corrupt" /\ op.count < MaxCorrupt)
    /\ \E k \in 0..(Len(Unwrap(file)) - 1) :
          file' = Some(SubSeq(Unwrap(file), 1, k))
    /\ op' = [name |-> "corrupt",
              count |-> IF op.name = "corrupt" THEN op.count + 1 ELSE 1]
    /\ out' = <<>>
    /\ ret' = None
    /\ UNCHANGED <<player, now, panicked, hist>>

PokeValues == {0, 1, 2, InventorySize, 200}

\* ... or one field overwritten.
Poke ==
    /\ IsSome(file)
    /\ op.name = "save" \/ (op.name = "corrupt" /\ op.count < MaxCorrupt)
    /\ \E i \in 1..Len(Unwrap(file)), v \in PokeValues :
          /\ Unwrap(file)[i] # v
          /\ file' = Some([Unwrap(file) EXCEPT ![i] = v])
    /\ op' = [name |-> "corrupt",
              count |-> IF op.name = "corrupt" THEN op.count + 1 ELSE 1]
    /\ out' = <<>>
    /\ ret' = None
    /\ UNCHANGED <<player, now, panicked, hist>>

----------------------------------------------------------------------------
(* worldedit: the selection corners *)

WorldEditPosition == {"First", "Second"}
BlockFacing == {"North", "South", "East", "West", "Up", "Down"}

\* WorldEditPosition::to_i and its Display (crate::plot::worldedit).
WorldEditPosition_to_i(n) == IF n = "First" THEN 0 ELSE 1
WorldEditPosition_display(n) == n

\* BlockPos::compare_direction (crate::blocks): the two positions compared
\* by their projection along the facing.
Projection(pos, facing) ==
    CASE facing = "East" -> pos.x
      [] facing = "West" -> -pos.x
      [] facing = "Up" -> pos.y
      [] facing = "Down" -> -pos.y
      [] facing = "South" -> pos.z
      [] facing = "North" -> -pos.z
compare_direction(pos1, pos2, facing) ==
    IF Projection(pos1, facing) < Projection(pos2, facing) THEN "Less"
    ELSE IF Projection(pos1, facing) = Projection(pos2, facing) THEN "Equal"
    ELSE "Greater"

\* CChatMessage and CPluginMessage, as the helpers build them.
CChatMessage(message, sender, position) ==
    [type |-> "CChatMessage", message |-> message, sender |-> sender,
     position |-> position]
CPluginMessage(channel, data) ==
    [type |-> "CPluginMessage", channel |-> channel, data |-> data]

send_raw_system_message(message) == <<CChatMessage(message, 0, 1)>>
send_worldedit_message(message) ==
    send_raw_system_message([text |-> message, color |-> "light_purple"])
worldedit_send_cui(message) == <<CPluginMessage("worldedit:cui", message)>>

\* The data of the last worldedit:cui message among packets, Some(data), or
\* old when packets holds none.
LastCui(packets, old) ==
    LET cui == {i \in 1..Len(packets) :
                  /\ packets[i].type = "CPluginMessage"
                  /\ packets[i].channel = "worldedit:cui"}
    IN  IF cui = {} THEN old
        ELSE Some(packets[CHOOSE i \in cui : \A j \in cui : j <= i].data)

\* format!("{} position set to ({}, {}, {})", n, pos.x, pos.y, pos.z)
SetPositionText(n, pos) ==
    WorldEditPosition_display(n) \o " position set to (" \o ToString(pos.x)
    \o ", " \o ToString(pos.y) \o ", " \o ToString(pos.z) \o ")"

\* Mutant of CuiText: y and z change places.
CuiTextSwapped(n, pos) ==
    "p|" \o ToString(WorldEditPosition_to_i(n)) \o "|" \o ToString(pos.x)
    \o "|" \o ToString(pos.z) \o "|" \o ToString(pos.y) \o "|0"

\* format!("p|{}|{}|{}|{}|0", n.to_i(), pos.x, pos.y, pos.z)
CuiText(n, pos) ==
    "p|" \o ToString(WorldEditPosition_to_i(n)) \o "|" \o ToString(pos.x)
    \o "|" \o ToString(pos.y) \o "|" \o ToString(pos.z) \o "|0"

\* worldedit_set_position: the packets sent, in order, and the player after.
SetPositionPackets(n, pos) ==
    send_worldedit_message(SetPositionText(n, pos))
    \o worldedit_send_cui(CuiText(n, pos))
\* The mutation of worldedit_set_position: the arms of the match are swapped.
worldedit_set_position_other(p, pos, n) ==
    IF n = "First" THEN [p EXCEPT !.second_position = Some(pos)]
    ELSE [p EXCEPT !.first_position = Some(pos)]

worldedit_set_position(p, pos, n) ==
    IF n = "First" THEN [p EXCEPT !.first_position = Some(pos)]
    ELSE [p EXCEPT !.second_position = Some(pos)]

\* Mutant of worldedit_pos_on_side: equal corners give Second.
worldedit_pos_on_side_strict(p, facing) ==
    IF ~IsSome(p.first_position) \/ ~IsSome(p.second_position) THEN None
    ELSE LET c == compare_direction(Unwrap(p.first_position),
                                    Unwrap(p.second_position), facing)
         IN  IF c = "Less" THEN Some("First") ELSE Some("Second")

worldedit_pos_on_side(p, facing) ==
    IF ~IsSome(p.first_position) \/ ~IsSome(p.second_position) THEN None
    ELSE LET pos1 == Unwrap(p.first_position)
             pos2 == Unwrap(p.second_position)
             c == compare_direction(pos1, pos2, facing)
         IN  CASE c = "Equal" -> Some("First")
               [] c = "Less" -> Some("First")
               [] c = "Greater" -> Some("Second")

\* Block positions the commands name: the origin and the points of each axis.
Axis == (-MaxBlock)..MaxBlock
TestPositions ==
    {[x |-> a, y |-> 0, z |-> 0] : a \in Axis}
    \cup {[x |-> 0, y |-> a, z |-> 0] : a \in Axis}
    \cup {[x |-> 0, y |-> 0, z |-> a] : a \in Axis}

WorldeditSetPosition ==
    /\ ~panicked
    /\ \E pos \in TestPositions, n \in WorldEditPosition :
          /\ out' = SetPositionPackets(n, pos)
          /\ player' = worldedit_set_position(player, pos, n)
          /\ op' = [name |-> "worldedit_set_position", pos |-> pos, n |-> n,
                    before |-> player]
          /\ hist' = [hist EXCEPT !.cui[n] = LastCui(out', @)]
    /\ ret' = None
    /\ UNCHANGED <<now, file, panicked>>

WorldeditPosOnSide ==
    /\ ~panicked
    /\ \E facing \in BlockFacing :
          /\ ret' = worldedit_pos_on_side(player, facing)
          /\ op' = [name |-> "worldedit_pos_on_side", facing |-> facing,
                    before |-> player]
    /\ out' = <<>>
    /\ UNCHANGED <<player, now, file, panicked, hist>>

----------------------------------------------------------------------------
(* worldedit: the undo history, as the edit commands use worldedit_undo *)

Snapshots == 1..NumSnapshots

\* Mutant of UndoPopped: the oldest entry is taken.
UndoPoppedOldest(h) ==
    IF h = <<>> THEN [ret |-> None, undo |-> h]
    ELSE [ret |-> Some(Head(h)), undo |-> Tail(h)]

\* Vec::pop on the history: the entry returned, and the history left.
UndoPopped(h) ==
    IF h = <<>> THEN [ret |-> None, undo |-> h]
    ELSE [ret |-> Some(h[Len(h)]), undo |-> SubSeq(h, 1, Len(h) - 1)]

\* An edit command pushes a snapshot.
UndoPush ==
    /\ ~panicked
    /\ Len(player.worldedit_undo) < MaxUndo
    /\ \E e \in Snapshots :
          /\ player' = [player EXCEPT !.worldedit_undo = Append(@, e)]
          /\ op' = [name |-> "undo_push", entry |-> e, before |-> player]
    /\ out' = <<>>
    /\ ret' = None
    /\ UNCHANGED <<now, file, panicked, hist>>

\* The undo command pops; None signals that there is nothing to undo.
UndoPop ==
    /\ ~panicked
    /\ player' = [player EXCEPT !.worldedit_undo = UndoPopped(@).undo]
    /\ ret' = UndoPopped(player.worldedit_undo).ret
    /\ op' = [name |-> "undo_pop", before |-> player]
    /\ out' = <<>>
    /\ UNCHANGED <<now, file, panicked, hist>>

----------------------------------------------------------------------------
(* get_direction and get_facing *)

BlockDirection == {"South", "West", "North", "East"}

\* f32 "as i32" of a whole number: saturating.
F32AsI32(n) ==
    IF n > I32Max THEN I32Max
    ELSE IF n < -I32Max - 1 THEN -I32Max - 1
    ELSE n

\* The mutation of And3: the remainder of the division by 4, of the sign of n.
And3Rem(n) == IF n >= 0 THEN n % 4 ELSE -((-n) % 4)

\* i32 "& 3": the two low bits of the two's complement of n.
And3(n) == n % 4

\* i32::abs
I32Abs(n) == IF n < 0 THEN -n ELSE n

\* (self.yaw / 90.0 + 0.5).floor()
QuarterTurns(yaw) == (2 * yaw + 90 * AngleScale) \div (180 * AngleScale)

get_direction(p) ==
    LET i == I32Abs(And3(F32AsI32(QuarterTurns(p.yaw))))
    IN  CASE i = 0 -> "South"
          [] i = 1 -> "West"
          [] i = 2 -> "North"
          [] i = 3 -> "East"
          [] OTHER -> "South"

\* f32::rem_euclid(360.0)
RemEuclid360(yaw) == yaw % (360 * AngleScale)

\* The mutation of InBand: the range without its upper end, (lo..hi).
InBandHalfOpen(lo, hi, yaw) == lo * AngleScale <= yaw /\ yaw < hi * AngleScale

\* (lo..=hi).contains(&yaw), lo and hi in degrees
InBand(lo, hi, yaw) == lo * AngleScale <= yaw /\ yaw <= hi * AngleScale

get_facing(p) ==
    LET yaw == RemEuclid360(p.yaw)
        pitch == p.pitch
    IN  IF pitch <= -70 * AngleScale THEN "Up"
        ELSE IF pitch >= 70 * AngleScale THEN "Down"
        ELSE IF InBand(45, 135, yaw) THEN "West"
        ELSE IF InBand(135, 225, yaw) THEN "North"
        ELSE IF InBand(225, 315, yaw) THEN "East"
        ELSE "South"

GetDirection ==
    /\ ~panicked
    /\ ret' = Some(get_direction(player))
    /\ op' = [name |-> "get_direction", before |-> player]
    /\ out' = <<>>
    /\ UNCHANGED <<player, now, file, panicked, hist>>

GetFacing ==
    /\ ~panicked
    /\ ret' = Some(get_facing(player))
    /\ op' = [name |-> "get_facing", before |-> player]
    /\ out' = <<>>
    /\ UNCHANGED <<player, now, file, panicked, hist>>

\* The angles a head can have: every yaw of the range, and the pitches
\* level and around both vertical thresholds.
Yaws == (-MaxYaw * AngleScale)..(MaxYaw * AngleScale)
Pitches ==
    {0} \cup {s * a : s \in {-1, 1},
                      a \in ((70 - PitchMargin) * AngleScale)
                            ..((70 + PitchMargin) * AngleScale)}

----------------------------------------------------------------------------
(* generate_offline_uuid *)

\* A u128 is the function from 0..31 to 0..15 of its hexadecimal digits,
\* digit i holding the bits 4i..4i+3; a digest is the sequence of its 16
\* bytes ([u8; 16]).
NibBit(a, j) == (a \div (2 ^ j)) % 2
NibAnd(a, b) ==
    NibBit(a, 0) * NibBit(b, 0) + 2 * NibBit(a, 1) * NibBit(b, 1)
    + 4 * NibBit(a, 2) * NibBit(b, 2) + 8 * NibBit(a, 3) * NibBit(b, 3)
U128And(a, b) == [i \in 0..31 |-> NibAnd(a[i], b[i])]
U128Or(a, b) == [i \in 0..31 |-> a[i] + b[i] - NibAnd(a[i], b[i])]
U128Not(a) == [i \in 0..31 |-> 15 - a[i]]

\* v << bits for a v below 16 and a shift of whole hexadecimal digits.
U128Shl(v, bits) == [i \in 0..31 |-> IF i = bits \div 4 THEN v ELSE 0]

\* Cursor::new(bytes).read_u128::<BigEndian>(): the first byte is the most
\* significant.
read_u128_be(bytes) ==
    [i \in 0..31 |-> IF i % 2 = 0 THEN bytes[16 - (i \div 2)] % 16
                     ELSE bytes[16 - (i \div 2)] \div 16]

\* The mutation of VariantMask: 0xF << 60.
VariantMaskWide == U128Shl(15, 60)

\* 0xC << 60
VariantMask == U128Shl(12, 60)

\* digest is md5::compute(format!("OfflinePlayer:{}", username)).0
generate_offline_uuid(digest) ==
    U128Or(U128And(read_u128_be(digest),
                   U128And(U128Not(VariantMask), U128Not(U128Shl(15, 76)))),
           U128Or(U128Shl(8, 60), U128Shl(3, 76)))

\* The digests of the names asked for: one byte pattern everywhere, and
\* every value of the high digits of the bytes 6 and 8, which hold the
\* version and the variant.
FillBytes == {(f * 85) % 256 : f \in 0..MaxFill}
TestDigests ==
    {[b \in 1..16 |-> IF b = 7 THEN 16 * h6 + (f % 16)
                      ELSE IF b = 9 THEN 16 * h8 + (f % 16)
                      ELSE f] :
        f \in FillBytes, h6 \in 0..15, h8 \in 0..15}

\* A login: the name a connection presents, given by its digest.
Login(digest) == [name |-> "login", digest |-> digest]

\* The identity of the name of the login.
GenerateOfflineUuid ==
    /\ op.name = "login"
    /\ ret' = Some(generate_offline_uuid(op.digest))
    /\ op' = [name |-> "generate_offline_uuid", digest |-> op.digest]
    /\ out' = <<>>
    /\ UNCHANGED <<player, now, file, panicked, hist>>

----------------------------------------------------------------------------
(* teleport *)

\* CPlayerPositionAndLook as teleport builds it; the flags 0x08 | 0x10 (pitch
\* and yaw are relative) are the set of their bits.
CPlayerPositionAndLook(x, y, z) ==
    [ type |-> "CPlayerPositionAndLook", x |-> x, y |-> y, z |-> z,
      yaw |-> 0, pitch |-> 0, flags |-> {8, 16}, teleport_id |-> 0 ]

\* The mutation of teleport: the head is turned to the rotation of the packet.
teleport_absolute(p, x, y, z) ==
    [p EXCEPT !.x = x, !.y = y, !.z = z, !.yaw = 0, !.pitch = 0]

teleport(p, x, y, z) == [p EXCEPT !.x = x, !.y = y, !.z = z]

\* The places commands teleport to: both sides of the borders of the cells
\* around the origin.
TeleportTargets ==
    { [x |-> c * 16 * PosScale + d, y |-> 64 * PosScale, z |-> dz] :
        c \in (-MaxChunk)..MaxChunk, d \in {-1, 0}, dz \in {-1, 0} }

Teleport ==
    /\ ~panicked
    /\ \E t \in TeleportTargets :
          /\ out' = <<CPlayerPositionAndLook(t.x, t.y, t.z)>>
          /\ player' = teleport(player, t.x, t.y, t.z)
          /\ op' = [name |-> "teleport", x |-> t.x, y |-> t.y, z |-> t.z,
                    before |-> player]
    /\ ret' = None
    /\ UNCHANGED <<now, file, panicked, hist>>

----------------------------------------------------------------------------
(* Specifications *)

Init ==
    /\ player = create_player(0)
    /\ now = 0
    /\ file = None
    /\ out = <<>>
    /\ ret = None
    /\ op = NoOp("create_player")
    /\ panicked = FALSE
    /\ hist = NoHistory

\* The keep-alive protocol: the clock, keep-alive replies, update.
NextLive == Tick \/ ReceiveKeepAlive \/ Update \/ Kick
SpecLive == Init /\ [][NextLive]_vars

\* Persistence: sessions of the same identity saved and loaded.
NextStore == Play \/ SetInventory \/ Save \/ LoadPlayer
SpecStore == Init /\ [][NextStore]_vars

\* Loading a record left by an earlier run and damaged outside the program.
InitLoad ==
    /\ \E p \in TestSessions :
          /\ file = Some(Serialize(PlayerDataOf(p)))
          /\ player = load_player(file, 0).player
    /\ now = 0
    /\ out = <<>>
    /\ ret = None
    /\ op = NoOp("save")
    /\ panicked = FALSE
    /\ hist = NoHistory
NextLoad == Truncate \/ Poke \/ LoadPlayer
SpecLoad == InitLoad /\ [][NextLoad]_vars

\* worldedit: the selection corners.
NextEdit == WorldeditSetPosition \/ WorldeditPosOnSide
SpecEdit == Init /\ [][NextEdit]_vars

\* worldedit: the undo history.
NextUndo == UndoPush \/ UndoPop
SpecUndo == Init /\ [][NextUndo]_vars

\* Movement: positions, recorded cells, update.
NextMove == Move \/ RecordChunk \/ Update
SpecMove == Init /\ [][NextMove]_vars

\* The head: sessions of every yaw and pitch asked for their direction.
InitLook ==
    /\ \E yaw \in Yaws, pitch \in Pitches :
          player = [create_player(0) EXCEPT !.yaw = yaw, !.pitch = pitch]
    /\ now = 0
    /\ file = None
    /\ out = <<>>
    /\ ret = None
    /\ op = NoOp("create_player")
    /\ panicked = FALSE
    /\ hist = NoHistory
NextLook == GetDirection \/ GetFacing
SpecLook == InitLook /\ [][NextLook]_vars

\* Offline identities: names asked for their identity.
InitUuid ==
    /\ player = create_player(0)
    /\ now = 0
    /\ file = None
    /\ out = <<>>
    /\ ret = None
    /\ \E digest \in TestDigests : op = Login(digest)
    /\ panicked = FALSE
    /\ hist = NoHistory
NextUuid == GenerateOfflineUuid
SpecUuid == InitUuid /\ [][NextUuid]_vars

\* Teleports: sessions of either profile teleported, and the caller of
\* update recording cells.
InitTeleport ==
    /\ \E f \in Profiles : player = WithProfile(create_player(0), f)
    /\ now = 0
    /\ file = None
    /\ out = <<>>
    /\ ret = None
    /\ op = NoOp("create_player")
    /\ panicked = FALSE
    /\ hist = NoHistory
NextTeleport == Teleport \/ RecordChunk \/ Update
SpecTeleport == InitTeleport /\ [][NextTeleport]_vars

\* A connection that stops answering: the clock advances and update is
\* called every tick (the owning context calls it once per server tick), so
\* neither waits for ever.  A step of Tick changes now, and a call of
\* update that differs from the last one changes op.
NextTimeout == Tick \/ Update
SpecTimeout ==
    Init /\ [][NextTimeout]_vars /\ WF_now(Tick) /\ WF_op(Update)

\* worldedit: selections made by sessions that have a clipboard and an undo
\* history from earlier edits.
UndoHistories ==
    {[i \in 1..k |-> ((i - 1) % NumSnapshots) + 1] : k \in 0..MaxUndo}
InitSelect ==
    /\ \E h \in UndoHistories, c \in {None, Some(1)} :
          player = [create_player(0) EXCEPT !.worldedit_undo = h,
                                            !.worldedit_clipboard = c]
    /\ now = 0
    /\ file = None
    /\ out = <<>>
    /\ ret = None
    /\ op = NoOp("create_player")
    /\ panicked = FALSE
    /\ hist = NoHistory
NextSelect == WorldeditSetPosition
SpecSelect == InitSelect /\ [][NextSelect]_vars

\* Joining: a session that has no record or an empty one, or that has just
\* saved its record at some position; a new connection of the same identity
\* loads it, then update is called.
JoinSessions ==
    {[create_player(0) EXCEPT !.x = x, !.z = z] : x \in Coords, z \in CoordsZ}
InitJoin ==
    /\ \/ /\ player = create_player(0)
          /\ file \in {None, Some(<<>>)}
          /\ ret = None
          /\ op = NoOp("create_player")
       \/ /\ player \in JoinSessions
          /\ file = Some(Serialize(PlayerDataOf(player)))
          /\ ret = Some("unit")
          /\ op = [name |-> "save", io_failed |-> FALSE, before |-> player]
    /\ now = 0
    /\ out = <<>>
    /\ panicked = FALSE
    /\ hist = NoHistory
NextJoin == LoadPlayer \/ Update
SpecJoin == InitJoin /\ [][NextJoin]_vars

----------------------------------------------------------------------------
(* Helpers of the properties *)

Count(seq, type) == Cardinality({i \in 1..Len(seq) : seq[i].type = type})
IsUpdate == op.name = "update"
Secs(n) == n * TicksPerSec

\* floor(f) div 16 with floor division: the 16-block cell of a coordinate.
CellOf(f) == f \div (16 * PosScale)

----------------------------------------------------------------------------
(* C1 - keep-alive timeout *)

\* C1 (as stated): an update call sends the "Timed out." disconnect packet
\* exactly when more than 30 seconds have passed since the last keep-alive
\* was received, fractions of a second included (30.5 s disconnects).
C1_AsStated ==
    IsUpdate =>
        ((op.since_received > Secs(KeepAliveTimeoutSecs))
            <=> (Count(out, "CDisconnect") >= 1))

\* C1 (amended): an update call sends exactly one disconnect packet, with the
\* reason "Timed out.", when at least 31 seconds have passed since the last
\* keep-alive was received (the whole seconds elapsed exceed 30), and no
\* disconnect packet when less than 31 seconds have passed (30.5 s included).
C1_TimeoutWholeSeconds ==
    IsUpdate =>
        /\ (op.since_received >= Secs(31)) =>
              /\ Count(out, "CDisconnect") = 1
              /\ out[1] = CDisconnect([text |-> "Timed out."])
        /\ (op.since_received < Secs(31)) => Count(out, "CDisconnect") = 0

\* C1 witness: an update call made 31 s or more after the last keep-alive
\* was received has sent the disconnect packet.
C1_Witness ==
    /\ IsUpdate
    /\ op.since_received >= Secs(31)
    /\ Count(out, "CDisconnect") = 1

----------------------------------------------------------------------------
(* C2 - keep-alive re-send *)

\* C2 (as stated): an update call made more than 10 seconds after the last
\* keep-alive was sent, and within 30 seconds of the last one received, sends
\* exactly one keep-alive, no disconnect, and sets last_keep_alive_sent to now.
C2_AsStated ==
    (IsUpdate /\ op.since_sent > Secs(KeepAliveIntervalSecs)
              /\ op.since_received <= Secs(KeepAliveTimeoutSecs)) =>
        /\ Count(out, "CKeepAlive") = 1
        /\ Count(out, "CDisconnect") = 0
        /\ player.last_keep_alive_sent = now

C2_State ==
    (IsUpdate /\ op.since_sent >= Secs(11)
              /\ op.since_received <= Secs(KeepAliveTimeoutSecs)) =>
        /\ out = <<[type |-> "CKeepAlive", id |-> now \div TicksPerSec]>>
        /\ player.last_keep_alive_sent = now

C2_Step ==
    (IsUpdate /\ Count(out, "CKeepAlive") = 1 /\ now' = now /\ op'.name = "update")
        => Count(out', "CKeepAlive") = 0

\* C2 (amended): an update call made at least 11 seconds after the last
\* keep-alive was sent (the whole seconds elapsed exceed 10), and within 30
\* seconds of the last one received, sends exactly one packet, a keep-alive
\* carrying the current time in seconds, and sets last_keep_alive_sent to
\* now; an update call that follows it with no time elapsed sends no
\* keep-alive.
C2_KeepAliveWholeSeconds == [](C2_State) /\ [][C2_Step]_vars

\* C2 witness: such an update call has sent its keep-alive.
C2_Witness ==
    /\ IsUpdate
    /\ op.since_sent >= Secs(11)
    /\ op.since_received <= Secs(KeepAliveTimeoutSecs)
    /\ Count(out, "CKeepAlive") = 1
    /\ player.last_keep_alive_sent = now

----------------------------------------------------------------------------
(* C3 - cell-crossing result of update *)

\* C3: update returns TRUE exactly when (floor(x) div 16, floor(z) div 16),
\* with floor division, differs from (last_chunk_x, last_chunk_z); a position
\* with x strictly between -1 and 0 is in cell -1.
C3_FloorCell ==
    IsUpdate =>
        (Unwrap(ret) <=> (\/ CellOf(player.x) # player.last_chunk_x
                  \/ CellOf(player.z) # player.last_chunk_z))

----------------------------------------------------------------------------
(* C4 - save then load_player *)

\* The fields of a session that the claim names.
Persisted(p) ==
    [ x |-> p.x, y |-> p.y, z |-> p.z, pitch |-> p.pitch, yaw |-> p.yaw,
      flying |-> p.flying, on_ground |-> p.on_ground,
      fly_speed |-> p.fly_speed, walk_speed |-> p.walk_speed,
      gamemode |-> p.gamemode, selected_slot |-> p.selected_slot,
      inventory |-> p.inventory ]

IsLoad == op.name = "load_player"
IsSave == op.name = "save"

\* C4: a load_player that follows a save that returned, of the same identity,
\* does not panic and yields a session whose position, pitch, yaw, flags,
\* speeds, game mode, selected slot and inventory (every slot's item, count,
\* damage and payload) are those of the saved session.
C4_RoundTrip ==
    (IsLoad /\ op.after_save) =>
        /\ ~panicked
        /\ Persisted(player) = Persisted(Unwrap(op.saved))

\* C4 witness: a session with all 46 slots occupied and non-default fields
\* was saved and loaded.
C4_Witness ==
    /\ IsLoad /\ op.after_save /\ ~panicked
    /\ \A s \in 0..(InventorySize - 1) : IsSome(Unwrap(op.saved).inventory[s])
    /\ Unwrap(op.saved).inventory[InventorySize - 1] = Some(ItemB)
    /\ Unwrap(op.saved).gamemode = "Spectator"

----------------------------------------------------------------------------
(* C5 - load_player on a damaged file *)

\* The content does not decode to a well-formed record.
Malformed(d) ==
    \/ ~IsSome(Deserialize(d))
    \/ LET pd == Unwrap(Deserialize(d))
       IN  \/ Len(pd.position) < 3
           \/ Len(pd.rotation) < 2
           \/ \E i \in 1..Len(pd.inventory) :
                 \/ pd.inventory[i].slot \notin 0..(InventorySize - 1)
                 \/ /\ IsSome(pd.inventory[i].nbt)
                    /\ ~IsSome(BlobFromBytes(Unwrap(pd.inventory[i].nbt)))

\* C5: load_player never aborts, and on a file that does not decode to a
\* well-formed record it returns the default session of create_player.
C5_NeverAborts ==
    IsLoad =>
        /\ ~panicked
        /\ (IsSome(file) /\ Malformed(Unwrap(file))) => player = create_player(now)

----------------------------------------------------------------------------
(* C6 - save when the file cannot be opened or written *)

\* C6: when opening or writing the file fails, save returns a failure result
\* to its caller, does not abort the calling context, and leaves the session
\* as it was.
C6_FailureReturned ==
    (IsSave /\ op.io_failed) =>
        /\ ~panicked
        /\ ret = Some("failure")
        /\ player = op.before

----------------------------------------------------------------------------
(* C7 - the file after save *)

\* C7: after a save that returned, the file holds exactly the serialised
\* record of the saved session, with nothing of an earlier record after it.
C7_FileIsLastRecord ==
    (IsSave /\ ~op.io_failed) => file = Some(Serialize(PlayerDataOf(player)))

----------------------------------------------------------------------------
(* C8 - the undo history *)

\* C8: the undo history is a LIFO stack. A push adds its entry on top of the
\* entries already there; a pop on a non-empty history returns the entry on
\* top (the most recently pushed one not yet popped) and leaves the entries
\* below it; a pop on an empty history returns nothing and leaves the
\* session unchanged. No pop changes any other field of the session.
C8_UndoLifo ==
    /\ op.name = "undo_push" =>
          LET h == op.before.worldedit_undo
          IN  /\ Len(player.worldedit_undo) = Len(h) + 1
              /\ player.worldedit_undo[Len(h) + 1] = op.entry
              /\ \A i \in 1..Len(h) : player.worldedit_undo[i] = h[i]
    /\ op.name = "undo_pop" =>
          LET h == op.before.worldedit_undo
          IN  /\ [player EXCEPT !.worldedit_undo = h] = op.before
              /\ IF Len(h) = 0
                 THEN ret = None /\ player.worldedit_undo = h
                 ELSE /\ ret = Some(h[Len(h)])
                      /\ Len(player.worldedit_undo) = Len(h) - 1
                      /\ \A i \in 1..(Len(h) - 1) : player.worldedit_undo[i] = h[i]

\* C8 witness: with three entries pushed, the second pop has returned the
\* second entry and left the first.
C8_Witness ==
    /\ op.name = "undo_pop"
    /\ Len(op.before.worldedit_undo) = 2
    /\ op.before.worldedit_undo[1] # op.before.worldedit_undo[2]
    /\ ret = Some(op.before.worldedit_undo[2])
    /\ player.worldedit_undo = <<op.before.worldedit_undo[1]>>

----------------------------------------------------------------------------
(* C9 - worldedit_pos_on_side *)

IsPosOnSide == op.name = "worldedit_pos_on_side"

\* C9: worldedit_pos_on_side(facing) returns nothing exactly when a corner is
\* unset; with both set it returns First when the first corner compares Less
\* or Equal to the second along the facing, and Second when it compares
\* Greater; it never modifies the session.
C9_PosOnSide ==
    IsPosOnSide =>
        /\ player = op.before
        /\ (ret = None) <=>
              (player.first_position = None \/ player.second_position = None)
        /\ (player.first_position # None /\ player.second_position # None) =>
              LET c == compare_direction(player.first_position[1],
                                         player.second_position[1], op.facing)
              IN  /\ c \in {"Less", "Equal"} => ret = Some("First")
                  /\ c = "Greater" => ret = Some("Second")

\* C9 witness: both corners set with equal projection, and First returned.
C9_Witness ==
    /\ IsPosOnSide
    /\ player.first_position # None /\ player.second_position # None
    /\ player.first_position # player.second_position
    /\ compare_direction(player.first_position[1], player.second_position[1],
                         op.facing) = "Equal"
    /\ ret = Some("First")

----------------------------------------------------------------------------
(* C10 - worldedit_set_position *)

IsSetPosition == op.name = "worldedit_set_position"
Corner(p, n) == IF n = "First" THEN p.first_position ELSE p.second_position

\* C10: worldedit_set_position(pos, n) stores pos in the corner n and sends
\* exactly two packets: first the light-purple system message naming the
\* coordinates, then the plugin message on "worldedit:cui" whose payload is
\* "p|<i>|<x>|<y>|<z>|0", i being 0 for First and 1 for Second and x, y, z the
\* coordinates stored.
C10_SetPosition ==
    IsSetPosition =>
        LET stored == Corner(player, op.n)
            i == IF op.n = "First" THEN "0" ELSE "1"
        IN  /\ stored = <<op.pos>>
            /\ Len(out) = 2
            /\ out[1].type = "CChatMessage"
            /\ out[1].message.color = "light_purple"
            /\ out[1].message.text =
                  op.n \o " position set to (" \o ToString(stored[1].x) \o ", "
                  \o ToString(stored[1].y) \o ", " \o ToString(stored[1].z) \o ")"
            /\ out[2].type = "CPluginMessage"
            /\ out[2].channel = "worldedit:cui"
            /\ out[2].data =
                  "p|" \o i \o "|" \o ToString(stored[1].x) \o "|"
                  \o ToString(stored[1].y) \o "|" \o ToString(stored[1].z) \o "|0"

\* C10 witness: the second corner was set to a position with a negative
\* coordinate, and the overlay message for it was sent last.
C10_Witness ==
    /\ IsSetPosition
    /\ op.n = "Second"
    /\ op.pos = [x |-> 0, y |-> -1, z |-> 0]
    /\ Len(out) = 2
    /\ out[2].data = "p|1|0|-1|0|0"

----------------------------------------------------------------------------
(* C11: for every yaw, negative yaws and yaws of 360 or more included,      *)
(* get_direction returns the entry of [South, West, North, East] at index   *)
(* round(yaw/90) mod 4, round being round-half-up and mod giving 0..3; yaw  *)
(* 0, 90, 180, 270 give South, West, North, East and yaw -90 gives East.    *)

Deg(d) == d * AngleScale

\* round-half-up of yaw/90: the whole k with k - 1/2 <= yaw/90 < k + 1/2.
RoundQuarter(yaw) ==
    CHOOSE k \in (-(MaxYaw \div 90) - 1)..((MaxYaw \div 90) + 1) :
        /\ (2 * k - 1) * Deg(90) <= 2 * yaw
        /\ 2 * yaw < (2 * k + 1) * Deg(90)

C11_Direction ==
    op.name = "get_direction" =>
        LET yaw == op.before.yaw
            entries == <<"South", "West", "North", "East">>
        IN  /\ ret = Some(entries[(RoundQuarter(yaw) % 4) + 1])
            /\ yaw = Deg(0) => ret = Some("South")
            /\ yaw = Deg(90) => ret = Some("West")
            /\ yaw = Deg(180) => ret = Some("North")
            /\ yaw = Deg(270) => ret = Some("East")
            /\ yaw = Deg(-90) => ret = Some("East")

C11_Witness ==
    /\ op.name = "get_direction"
    /\ op.before.yaw = Deg(-90)
    /\ ret = Some("East")

----------------------------------------------------------------------------
(* C12: get_facing returns Up when pitch <= -70 and Down when pitch >= 70,  *)
(* whatever the yaw; otherwise, with the yaw reduced to [0, 360), the first *)
(* matching band of [45,135] West, [135,225] North, [225,315] East wins,    *)
(* else South: 45 and 135 give West, 225 North, 315 East, and pitch 0 with  *)
(* yaw 200 gives North.                                                     *)

\* yaw reduced to [0, 360): the r of that range that differs from yaw by
\* whole turns.
Reduced(yaw) ==
    CHOOSE r \in 0..(Deg(360) - 1) :
        \E k \in (-(MaxYaw \div 360) - 1)..((MaxYaw \div 360) + 1) :
            yaw = r + k * Deg(360)

C12_Facing ==
    op.name = "get_facing" =>
        LET pitch == op.before.pitch
            yaw == Reduced(op.before.yaw)
            level == pitch > Deg(-70) /\ pitch < Deg(70)
        IN  /\ pitch <= Deg(-70) => ret = Some("Up")
            /\ pitch >= Deg(70) => ret = Some("Down")
            /\ level /\ Deg(45) <= yaw /\ yaw <= Deg(135) => ret = Some("West")
            /\ level /\ Deg(135) < yaw /\ yaw <= Deg(225) => ret = Some("North")
            /\ level /\ Deg(225) < yaw /\ yaw <= Deg(315) => ret = Some("East")
            /\ level /\ (yaw < Deg(45) \/ yaw > Deg(315)) => ret = Some("South")
            /\ pitch = 0 /\ op.before.yaw = Deg(200) => ret = Some("North")

C12_Witness ==
    /\ op.name = "get_facing"
    /\ op.before.pitch = 0
    /\ op.before.yaw = Deg(135 - 360)
    /\ ret = Some("West")

----------------------------------------------------------------------------
(* C13: for every 128-bit digest, the identity of generate_offline_uuid has *)
(* the version nibble (bits 76..79) equal to 3, the variant bits 63 and 62  *)
(* equal to 1 and 0, and every other bit equal to the bit of the big-endian *)
(* digest; so the identity is determined by the digest of the name.         *)

\* Bit k of an identity, and bit k of the digest read as a big-endian
\* number (bit 127 is the top bit of the first byte).
UuidBit(u, k) == (u[k \div 4] \div (2 ^ (k % 4))) % 2
DigestBit(d, k) == (d[16 - (k \div 8)] \div (2 ^ (k % 8))) % 2

C13_OfflineUuid ==
    op.name = "generate_offline_uuid" =>
        LET uuid == Unwrap(ret)
        IN  /\ UuidBit(uuid, 76) + 2 * UuidBit(uuid, 77)
               + 4 * UuidBit(uuid, 78) + 8 * UuidBit(uuid, 79) = 3
            /\ UuidBit(uuid, 63) = 1
            /\ UuidBit(uuid, 62) = 0
            /\ \A k \in (0..127) \ {62, 63, 76, 77, 78, 79} :
                  UuidBit(uuid, k) = DigestBit(op.digest, k)

\* A digest whose version and variant bits all differ from the encoded ones,
\* beside other bits that are set.
C13_Witness ==
    /\ op.name = "generate_offline_uuid"
    /\ DigestBit(op.digest, 63) = 0
    /\ DigestBit(op.digest, 62) = 1
    /\ \A k \in 76..79 : DigestBit(op.digest, k) = (IF k < 78 THEN 0 ELSE 1)
    /\ DigestBit(op.digest, 61) = 1
    /\ UuidBit(Unwrap(ret), 61) = 1
    /\ UuidBit(Unwrap(ret), 63) = 1

----------------------------------------------------------------------------
(* C14: update never changes the recorded cell, the position, the selection *)
(* corners, the undo history or the last-received instant; therefore, once  *)
(* the position is in a cell different from the recorded one, every update  *)
(* returns true until the caller records another cell.                      *)

\* The fields update leaves alone.
UpdateFrame(p) ==
    <<p.last_chunk_x, p.last_chunk_z, p.x, p.y, p.z, p.first_position,
      p.second_position, p.worldedit_undo, p.last_keep_alive_received>>

\* The position of p lies in a 16-block cell other than the recorded one.
OutsideRecordedCell(p) ==
    \/ CellOf(p.x) # p.last_chunk_x
    \/ CellOf(p.z) # p.last_chunk_z

\* The frame alone.
C14_Frame == IsUpdate => UpdateFrame(player) = UpdateFrame(op.before)

C14_UpdateFrame ==
    IsUpdate =>
        /\ UpdateFrame(player) = UpdateFrame(op.before)
        /\ OutsideRecordedCell(op.before) => ret = Some(TRUE)

----------------------------------------------------------------------------
(* C15: kick sends exactly one disconnect packet, changes no field of the   *)
(* session and does not close the transport: after a time-out disconnect    *)
(* the session still processes update calls (keep-alives and the cell check *)
(* go on), and every later update made while the last-received instant is   *)
(* still the one that timed out, more than 30 seconds old, sends a          *)
(* disconnect again.                                                        *)

\* Every field of the session but the one send_keep_alive assigns.
ButKeepAliveSent(p) == [p EXCEPT !.last_keep_alive_sent = 0]

\* update sent a time-out disconnect.
SentTimeout == IsUpdate /\ Count(out, "CDisconnect") > 0

\* update was called after a time-out disconnect for the last-received
\* instant the session still has.
AfterTimeout ==
    /\ IsUpdate
    /\ op.hist.timed_out_for = Some(op.before.last_keep_alive_received)

C15_Kick ==
    /\ op.name = "kick" =>
          /\ out = <<CDisconnect(op.reason)>>
          /\ player = op.before
          /\ ENABLED Update
    /\ SentTimeout =>
          /\ Count(out, "CDisconnect") = 1
          /\ ButKeepAliveSent(player) = ButKeepAliveSent(op.before)
          /\ ENABLED Update
    /\ AfterTimeout =>
          /\ op.since_received > Secs(KeepAliveTimeoutSecs)
          /\ out[1] = CDisconnect(TimedOutReason)
          /\ Count(out, "CDisconnect") = 1
          /\ ret \in {Some(FALSE), Some(TRUE)}
          /\ op.since_sent >= Secs(KeepAliveIntervalSecs + 1)
                => Count(out, "CKeepAlive") = 1

\* An update after a time-out disconnect that disconnects again and sends a
\* keep-alive: the keep-alive was not due at the first disconnect, so time
\* has passed since.
C15_Witness ==
    /\ AfterTimeout
    /\ Count(out, "CDisconnect") = 1
    /\ Count(out, "CKeepAlive") = 1

----------------------------------------------------------------------------
(* C16: teleport(x, y, z) sets the position to exactly (x, y, z), sends     *)
(* exactly one position packet with those coordinates, yaw and pitch deltas *)
(* 0 and the relative-rotation flags, and leaves yaw, pitch and the         *)
(* recorded cell unchanged; so a teleport into a different 16-block cell    *)
(* makes the next update return true.                                       *)

IsTeleport == op.name = "teleport"

\* What teleport does to the session and sends.
C16_Effect ==
    IsTeleport =>
        /\ <<player.x, player.y, player.z>> = <<op.x, op.y, op.z>>
        /\ Len(out) = 1
        /\ out[1].type = "CPlayerPositionAndLook"
        /\ <<out[1].x, out[1].y, out[1].z>> = <<op.x, op.y, op.z>>
        /\ out[1].yaw = 0 /\ out[1].pitch = 0
        /\ out[1].flags = {8, 16}
        /\ player.yaw = op.before.yaw
        /\ player.pitch = op.before.pitch
        /\ player.last_chunk_x = op.before.last_chunk_x
        /\ player.last_chunk_z = op.before.last_chunk_z

\* The teleport left the cell the session was in, which was the recorded one.
TeleportedToOtherCell ==
    /\ IsTeleport
    /\ ~OutsideRecordedCell(op.before)
    /\ <<CellOf(player.x), CellOf(player.z)>>
         # <<CellOf(op.before.x), CellOf(op.before.z)>>

C16_Teleport ==
    /\ C16_Effect
    /\ TeleportedToOtherCell =>
          /\ ENABLED (Update /\ ret' = Some(TRUE))
          /\ ~ENABLED (Update /\ ret' = Some(FALSE))

----------------------------------------------------------------------------
(* C17: the keep-alive timer is re-armed on every send: in any sequence of  *)
(* update calls, more than 10 seconds lie between two consecutive           *)
(* keep-alive packets sent by update, and no update sends more than one.    *)

C17_KeepAliveSpacing ==
    IsUpdate /\ Count(out, "CKeepAlive") > 0 =>
        /\ Count(out, "CKeepAlive") = 1
        /\ hist.heartbeat_at = Some(now)
        /\ IsSome(op.hist.heartbeat_at) =>
              now - Unwrap(op.hist.heartbeat_at) > Secs(KeepAliveIntervalSecs)

\* A second keep-alive, sent as early after the first as update sends it.
C17_Witness ==
    /\ IsUpdate
    /\ Count(out, "CKeepAlive") = 1
    /\ IsSome(op.hist.heartbeat_at)
    /\ now - Unwrap(op.hist.heartbeat_at) = Secs(KeepAliveIntervalSecs + 1)

----------------------------------------------------------------------------
(* C18: if update keeps being called while time advances and the            *)
(* last-received instant is never refreshed, eventually an update sends a   *)
(* disconnect; and in the update where both the 30-second and the 10-second *)
(* thresholds are exceeded, the disconnect is sent before the keep-alive.   *)

DisconnectBeforeKeepAlive ==
    \E i, j \in 1..Len(out) :
        /\ i < j
        /\ out[i].type = "CDisconnect"
        /\ out[j].type = "CKeepAlive"

\* As stated: the thresholds are exceeded as soon as more than 30 and more
\* than 10 seconds have passed.
C18_AsStated ==
    /\ <>SentTimeout
    /\ [](IsUpdate /\ op.since_received > Secs(KeepAliveTimeoutSecs)
                   /\ op.since_sent > Secs(KeepAliveIntervalSecs)
            => DisconnectBeforeKeepAlive)

\* Amended: the thresholds are exceeded once 31 and 11 whole seconds have
\* passed.
C18_Timeout ==
    /\ <>SentTimeout
    /\ [](IsUpdate /\ op.since_received >= Secs(KeepAliveTimeoutSecs + 1)
                   /\ op.since_sent >= Secs(KeepAliveIntervalSecs + 1)
            => DisconnectBeforeKeepAlive /\ Len(out) = 2)

C18_Witness ==
    /\ IsUpdate
    /\ op.since_received >= Secs(KeepAliveTimeoutSecs + 1)
    /\ op.since_sent >= Secs(KeepAliveIntervalSecs + 1)
    /\ IsSome(op.hist.heartbeat_at)
    /\ out = <<CDisconnect(TimedOutReason), CKeepAlive(UnixSecs(now))>>

----------------------------------------------------------------------------
(* C19: after any sequence of worldedit_set_position calls, for each corner *)
(* that is set, the most recent worldedit:cui message sent for that corner  *)
(* carries exactly the coordinates stored in that corner; and a             *)
(* set_position on one corner leaves the other corner, the clipboard and    *)
(* the undo history unchanged.                                              *)

\* The overlay message for corner n at pos.
Overlay(n, pos) ==
    "p|" \o (IF n = "First" THEN "0" ELSE "1") \o "|" \o ToString(pos.x)
    \o "|" \o ToString(pos.y) \o "|" \o ToString(pos.z) \o "|0"

OtherCorner(n) == IF n = "First" THEN "Second" ELSE "First"

C19_OverlayMirror ==
    /\ \A n \in {"First", "Second"} :
          IsSome(Corner(player, n)) =>
              hist.cui[n] = Some(Overlay(n, Unwrap(Corner(player, n))))
    /\ IsSetPosition =>
          /\ Corner(player, OtherCorner(op.n))
               = Corner(op.before, OtherCorner(op.n))
          /\ player.worldedit_clipboard = op.before.worldedit_clipboard
          /\ player.worldedit_undo = op.before.worldedit_undo

\* The first corner is moved while the second one, a clipboard and an undo
\* history exist.
C19_Witness ==
    /\ IsSetPosition
    /\ op.n = "First"
    /\ IsSome(op.before.first_position)
    /\ op.before.first_position # player.first_position
    /\ IsSome(player.second_position)
    /\ player.second_position # player.first_position
    /\ IsSome(player.worldedit_clipboard)
    /\ Len(player.worldedit_undo) > 1

----------------------------------------------------------------------------
(* C20: a session created by create_player (no file, or an undecodable      *)
(* file) has position (128,128,128) and recorded cell (8,8), so its first   *)
(* update reports no cell crossing; a session loaded from a valid record    *)
(* has recorded cell (0,0) whatever the persisted position, so its first    *)
(* update returns true exactly when the persisted position lies outside     *)
(* cell (0,0).                                                              *)

\* The file holds no record that decodes.
NoValidRecord == ~IsSome(file) \/ ~IsSome(Deserialize(Unwrap(file)))

\* The position of the record of the file.
PersistedPosition == Unwrap(Deserialize(Unwrap(file))).position

\* The update that follows returns b.
FirstUpdateReturns(b) ==
    /\ ENABLED (Update /\ ret' = Some(b))
    /\ ~ENABLED (Update /\ ret' = Some(~b))

\* The fields of the session that joins.
C20_Cells ==
    IsLoad /\ ~panicked =>
        IF NoValidRecord
        THEN /\ <<player.x, player.y, player.z>>
                  = <<128 * PosScale, 128 * PosScale, 128 * PosScale>>
             /\ <<player.last_chunk_x, player.last_chunk_z>> = <<8, 8>>
             /\ FirstUpdateReturns(FALSE)
        ELSE /\ <<player.x, player.y, player.z>> = PersistedPosition
             /\ <<player.last_chunk_x, player.last_chunk_z>> = <<0, 0>>

C20_FirstUpdate ==
    /\ C20_Cells
    /\ IsLoad /\ ~panicked /\ ~NoValidRecord =>
          IF \/ CellOf(PersistedPosition[1]) # 0
             \/ CellOf(PersistedPosition[3]) # 0
          THEN FirstUpdateReturns(TRUE)
          ELSE FirstUpdateReturns(FALSE)

====
